---------------------------- MODULE Spec2Model ----------------------------
(***************************************************************************)
(* The command queue and the time-trigger scheduler of bgserver.py:        *)
(* the deque pending_emo_updates, the poll handler get_updates, the        *)
(* schedule loader load_schedule_from_csv and the background thread        *)
(* scheduler_task.                                                         *)
(*                                                                         *)
(* Threads: the scheduler thread (one step per statement group that        *)
(* touches shared state), the request-handling threads of the Flask        *)
(* server running get_updates (one step per deque operation: the GIL makes *)
(* each deque call atomic and nothing more), and intake handlers that      *)
(* append a command.                                                       *)
(***************************************************************************)
EXTENDS Integers, Sequences, FiniteSets, TLC

\* ------------------------------------------------------------------ bounds

\* Seconds of wall-clock time the full system (Spec) is followed for.
MaxElapsed == 1
\* Seconds of wall-clock time the scheduler alone (SchedSpec) is followed for.
MaxSchedElapsed == 76
\* The longest a tick's work stretches the gap between two ticks beyond sleep(1).
MaxLag == 1
\* Commands the intake handlers append in one run.
MaxIntake == 1
\* Commands appended in a sequential run (SeqSpec).
MaxSeqIntake == 3
\* Data rows of the schedule resources of LoadSpec.
MaxRows == 3
\* Seconds of wall-clock time LoadSpec is followed for.
MaxLoadElapsed == 2
\* Seconds the process stays suspended in one sleep (EnvSpec).
SuspendSeconds == 62
\* Seconds of wall-clock time the start-up (BootSpec) is followed for.
MaxBootElapsed == 1

\* ------------------------------------------------------- program constants

\* current_time.second % 10 == 0
ReloadPeriod == 10
\* current_time.second < 5
ResetWindow == 5
\* time.sleep(1)
SleepSeconds == 1
\* now + timedelta(seconds=30), now + timedelta(seconds=60)
BootDelay1 == 30
BootDelay2 == 60

\* The threads that call load_schedule_from_csv at start-up: the main
\* thread (line 429) and the scheduler thread (line 389).
BootThreads == {"main", "sched"}

\* The request-handling threads that may run get_updates at the same time.
Pollers == {"p1", "p2"}

\* ------------------------------------------------------------- date, time

(* The wall clock is a count of seconds since 2025-01-01 00:00:00; the runs *)
(* followed stay inside January 2025.                                      *)
DateTimeNow(t) ==
    [year |-> 2025, month |-> 1, day |-> 1 + (t \div 86400),
     hour |-> (t \div 3600) % 24, minute |-> (t \div 60) % 60,
     second |-> t % 60]

IsLeap(y) == (y % 4 = 0 /\ y % 100 # 0) \/ y % 400 = 0

DaysInMonth(y, m) ==
    IF m = 2 THEN (IF IsLeap(y) THEN 29 ELSE 28)
    ELSE IF m \in {4, 6, 9, 11} THEN 30 ELSE 31

(* A cell of the CSV resource: its text s, and ts, the digit groups of the *)
(* text when it has the shape of '%Y-%m-%d %H:%M:%S' (<<>> when not).      *)
Cell(str) == [s |-> str, ts |-> <<>>]
TsCell(y, mo, d, h, mi, sec) == [s |-> "", ts |-> <<y, mo, d, h, mi, sec>>]

\* datetime.strftime('%Y-%m-%d %H:%M:%S')
Strftime(dt) == [s |-> "", ts |-> <<dt.year, dt.month, dt.day, dt.hour, dt.minute, dt.second>>]

\* datetime.strptime(cell, '%Y-%m-%d %H:%M:%S') raises ValueError
StrptimeFails(cell) ==
    \/ Len(cell.ts) # 6
    \/ LET t == cell.ts IN
         ~ /\ t[1] \in 1..9999
           /\ t[2] \in 1..12
           /\ t[3] \in 1..DaysInMonth(t[1], t[2])
           /\ t[4] \in 0..23
           /\ t[5] \in 0..59
           /\ t[6] \in 0..59

\* datetime.strptime(cell, '%Y-%d-%m %H:%M:%S')
StrptimeDayFirst(cell) ==
    [year |-> cell.ts[1], month |-> cell.ts[3], day |-> cell.ts[2],
     hour |-> cell.ts[4], minute |-> cell.ts[5], second |-> cell.ts[6]]

\* datetime.strptime(cell, '%Y-%m-%d %H:%M:%S')
Strptime(cell) ==
    [year |-> cell.ts[1], month |-> cell.ts[2], day |-> cell.ts[3],
     hour |-> cell.ts[4], minute |-> cell.ts[5], second |-> cell.ts[6]]

\* ------------------------------------------------------ the schedule store

Header == <<Cell("datetime_str"), Cell("text_to_speak")>>

\* A dummy file written without its header row.
DummyFileNoHeader(t) ==
    [exists |-> TRUE,
     rows |-> << <<Strftime(DateTimeNow(t + BootDelay1)), Cell("Hello from the future, EMO!")>>,
                 <<Strftime(DateTimeNow(t + BootDelay2)), Cell("This is your one minute warning!")>> >>]

\* The file load_schedule_from_csv writes when the resource is missing.
DummyFile(t) ==
    [exists |-> TRUE,
     rows |-> << Header,
                 <<Strftime(DateTimeNow(t + BootDelay1)), Cell("Hello from the future, EMO!")>>,
                 <<Strftime(DateTimeNow(t + BootDelay2)), Cell("This is your one minute warning!")>> >>]

\* A row loop that a malformed row ends.
RECURSIVE ParseRowsAbort(_)
ParseRowsAbort(rows) ==
    IF rows = <<>> THEN <<>>
    ELSE LET row == Head(rows) IN
         IF Len(row) = 2 /\ ~StrptimeFails(row[1])
         THEN <<[datetime |-> Strptime(row[1]), text |-> row[2].s]>> \o ParseRowsAbort(Tail(rows))
         ELSE <<>>

\* The for loop over the data rows: rows of two columns whose first parses.
RECURSIVE ParseRows(_)
ParseRows(rows) ==
    IF rows = <<>> THEN <<>>
    ELSE LET row == Head(rows) IN
         IF Len(row) = 2 /\ ~StrptimeFails(row[1])
         THEN <<[datetime |-> Strptime(row[1]), text |-> row[2].s]>> \o ParseRows(Tail(rows))
         ELSE ParseRows(Tail(rows))

\* A read that writes the rows it kept back to the resource.
ReadScheduleRewrite(f) ==
    IF Len(f.rows) = 0
    THEN [raised |-> "StopIteration", schedule |-> <<>>, file |-> f]
    ELSE [raised |-> "none", schedule |-> ParseRows(Tail(f.rows)),
          file |-> [f EXCEPT !.rows = <<Head(f.rows)>> \o
                       SelectSeq(Tail(f.rows), LAMBDA row : Len(row) = 2 /\ ~StrptimeFails(row[1]))]]

\* Reading an existing resource: next(reader) raises StopIteration when
\* there is no first row.
ReadSchedule(f) ==
    IF Len(f.rows) = 0
    THEN [raised |-> "StopIteration", schedule |-> <<>>, file |-> f]
    ELSE [raised |-> "none", schedule |-> ParseRows(Tail(f.rows)), file |-> f]

\* load_schedule_from_csv(SCHEDULE_CSV_FILE) called at wall-clock time t.
load_schedule_from_csv(f, t) ==
    IF ~f.exists THEN ReadSchedule(DummyFile(t)) ELSE ReadSchedule(f)

\* ------------------------------------------------------------------- state

VARIABLES
    now,                 \* the wall clock, in seconds
    deadline,            \* the clock value the run is followed up to
    file,                \* the schedule resource updates.csv
    pending_emo_updates, \* the command queue
    pc,                  \* the scheduler thread's position
    current_time,        \* scheduler_task: current_time
    schedule,            \* scheduler_task: schedule (bound: assigned yet?)
    triggered_events_this_minute,
    idx,                 \* scheduler_task: position of the for loop
    error,               \* the exception that ended the scheduler thread
    ppc,                 \* each request thread's position in get_updates
    updates,             \* get_updates: updates, per request thread
    response,            \* the last response each request thread returned
    nAppended,           \* commands appended so far (the n-th carries n)
    nIntake,             \* commands appended by intake handlers
    delivered,           \* the commands returned by polls, in return order
    fires,               \* the scheduler's appends: tick time and event
    observed,            \* the entries a tick went through inside their minute
    resets,              \* the tick times at which a non-empty fired set was cleared
    refreshed,           \* the time of the last refresh of the snapshot (-1: none yet)
    lpc                  \* start-up: each thread's position in load_schedule_from_csv

vars == <<now, deadline, file, pending_emo_updates, pc, current_time, schedule,
          triggered_events_this_minute, idx, error, ppc, updates, response,
          nAppended, nIntake, delivered, fires, observed, resets, refreshed, lpc>>

schedVars == <<pc, current_time, schedule, triggered_events_this_minute, idx, error>>
pollVars == <<ppc, updates, response, delivered>>

\* ------------------------------------------------------------ the scheduler

\* The comparison without the hour.
IsDueAnyHour(event_dt, t) ==
    LET ct == DateTimeNow(t) IN
    /\ event_dt.year = ct.year
    /\ event_dt.month = ct.month
    /\ event_dt.day = ct.day
    /\ event_dt.minute = ct.minute

\* Due or overdue: a comparison that catches up on past entries.
IsDueOrOverdue(event_dt, t) ==
    LET ct == DateTimeNow(t) IN
    <<event_dt.year, event_dt.month, event_dt.day>> = <<ct.year, ct.month, ct.day>>
    /\ event_dt.hour * 60 + event_dt.minute <= ct.hour * 60 + ct.minute

\* The comparison to the second.
IsDueExactSecond(event_dt, t) ==
    LET ct == DateTimeNow(t) IN
    /\ event_dt.year = ct.year
    /\ event_dt.month = ct.month
    /\ event_dt.day = ct.day
    /\ event_dt.hour = ct.hour
    /\ event_dt.minute = ct.minute
    /\ event_dt.second = ct.second

\* The comparison of lines 401-405.
IsDue(event_dt, t) ==
    LET ct == DateTimeNow(t) IN
    /\ event_dt.year = ct.year
    /\ event_dt.month = ct.month
    /\ event_dt.day = ct.day
    /\ event_dt.hour = ct.hour
    /\ event_dt.minute = ct.minute

\* f"{event_dt.isoformat()}_{event_text}": the isoformat of a datetime
\* without microseconds has a fixed width, so the pair determines the string.
EventIdText(event) == <<event.text>>

EventIdMinute(event) == <<[event.datetime EXCEPT !.second = 0], event.text>>

EventId(event) == <<event.datetime, event.text>>

\* current_time.second % 10 == 0
ReloadDue(t) == DateTimeNow(t).second % ReloadPeriod = 0

\* A reset that also comes with every reload.
ResetDueOnReload(t) ==
    DateTimeNow(t).second < ResetWindow \/ DateTimeNow(t).second % ReloadPeriod = 0

\* current_time.second < 5
ResetDue(t) == DateTimeNow(t).second < ResetWindow

\* An append to a deque of bounded length, which drops the oldest command.
EnqueueDropOldest(q, cmd) == IF q = <<>> THEN <<cmd>> ELSE Tail(q) \o <<cmd>>

\* pending_emo_updates.appendleft(cmd)
EnqueueLeft(q, cmd) == <<cmd>> \o q

\* pending_emo_updates.append(cmd)
Enqueue(q, cmd) == q \o <<cmd>>

\* The minute of a datetime, as a count of minutes that orders datetimes.
MinuteStamp(dt) ==
    ((((dt.year * 12 + (dt.month - 1)) * 31 + (dt.day - 1)) * 24 + dt.hour) * 60) + dt.minute

\* The wall-clock second t lies inside the trigger minute of dt.
InMinuteOf(dt, t) == MinuteStamp(dt) = MinuteStamp(DateTimeNow(t))

\* A reload that adds the loaded entries to the snapshot it had.
ReloadedMerge(old, loaded) == [bound |-> TRUE, events |-> old.events \o loaded]

\* Line 389: schedule = load_schedule_from_csv(SCHEDULE_CSV_FILE)
Reloaded(old, loaded) == [bound |-> TRUE, events |-> loaded]

\* Lines 385-396: read the clock, reload, reset, enter the for loop.
TickBegin ==
    /\ pc = "loop"
    /\ LET t == now
           ld == load_schedule_from_csv(file, t)
           sch == IF ReloadDue(t) THEN Reloaded(schedule, ld.schedule) ELSE schedule
       IN /\ current_time' = t
          /\ IF ReloadDue(t) /\ ld.raised # "none"
             THEN /\ pc' = "dead"
                  /\ error' = ld.raised
                  /\ file' = ld.file
                  /\ UNCHANGED <<schedule, triggered_events_this_minute, idx>>
             ELSE /\ file' = (IF ReloadDue(t) THEN ld.file ELSE file)
                  /\ schedule' = sch
                  /\ triggered_events_this_minute' =
                         (IF ResetDue(t) THEN {} ELSE triggered_events_this_minute)
                  /\ IF sch.bound
                     THEN pc' = "for" /\ idx' = 1 /\ UNCHANGED error
                     ELSE pc' = "dead" /\ error' = "UnboundLocalError" /\ UNCHANGED idx
    /\ resets' = (IF /\ ~(ReloadDue(now) /\ load_schedule_from_csv(file, now).raised # "none")
                     /\ ResetDue(now)
                     /\ triggered_events_this_minute # {}
                  THEN resets \cup {now} ELSE resets)
    /\ refreshed' = (IF ReloadDue(now) /\ load_schedule_from_csv(file, now).raised = "none"
                     THEN now ELSE refreshed)
    /\ UNCHANGED <<now, deadline, pending_emo_updates, nAppended, nIntake, fires, observed, lpc>>
    /\ UNCHANGED pollVars

\* Lines 396-415: one iteration of the for loop.
TickEvent ==
    /\ pc = "for"
    /\ idx <= Len(schedule.events)
    /\ LET event == schedule.events[idx]
           event_id == EventId(event)
       IN IF IsDue(event.datetime, current_time) /\ event_id \notin triggered_events_this_minute
          THEN /\ pending_emo_updates' =
                     Enqueue(pending_emo_updates,
                            [type |-> "speak", text |-> event.text, n |-> nAppended + 1])
               /\ nAppended' = nAppended + 1
               /\ triggered_events_this_minute' = triggered_events_this_minute \cup {event_id}
               /\ fires' = fires \cup {[at |-> current_time, datetime |-> event.datetime,
                                        text |-> event.text]}
          ELSE UNCHANGED <<pending_emo_updates, nAppended, triggered_events_this_minute, fires>>
    /\ observed' = (IF InMinuteOf(schedule.events[idx].datetime, current_time)
                    THEN observed \cup {<<schedule.events[idx].datetime, schedule.events[idx].text>>}
                    ELSE observed)
    /\ idx' = idx + 1
    /\ UNCHANGED <<now, deadline, file, pc, current_time, schedule, error, nIntake, resets, refreshed, lpc>>
    /\ UNCHANGED pollVars

\* Line 417: time.sleep(1); the next tick reads the clock at least one
\* second later.
TickSleep ==
    /\ pc = "for"
    /\ idx > Len(schedule.events)
    /\ \E d \in SleepSeconds..(SleepSeconds + MaxLag) :
          /\ now + d <= deadline
          /\ now' = now + d
    /\ pc' = "loop"
    /\ UNCHANGED <<deadline, file, pending_emo_updates, current_time, schedule,
                   triggered_events_this_minute, idx, error, nAppended, nIntake, fires, observed, resets, refreshed, lpc>>
    /\ UNCHANGED pollVars

\* Line 417 with the process suspended during the sleep: the next tick reads
\* the clock more than a minute later.
Suspend ==
    /\ pc = "for"
    /\ idx > Len(schedule.events)
    /\ now + SuspendSeconds <= deadline
    /\ now' = now + SuspendSeconds
    /\ pc' = "loop"
    /\ UNCHANGED <<deadline, file, pending_emo_updates, current_time, schedule,
                   triggered_events_this_minute, idx, error, nAppended, nIntake, fires, observed, resets, refreshed, lpc>>
    /\ UNCHANGED pollVars

\* ------------------------------------------------------------- get_updates

\* The response that fails a poll with nothing pending.
JsonifyOrAbort(body) ==
    IF body = <<>> THEN [status |-> 404, body |-> <<>>] ELSE [status |-> 200, body |-> body]

\* jsonify(updates), jsonify([])
Jsonify(body) == [status |-> 200, body |-> body]

\* The ordinals of the commands of a sequence.
Serials(cmds) == [i \in 1..Len(cmds) |-> cmds[i].n]

\* Line 297: if pending_emo_updates:
PollTest(p) ==
    /\ ppc[p] = "idle"
    /\ ppc' = [ppc EXCEPT ![p] = IF Len(pending_emo_updates) > 0 THEN "list" ELSE "empty"]
    /\ UNCHANGED <<updates, response, delivered>>
    /\ UNCHANGED <<now, deadline, file, pending_emo_updates, nAppended, nIntake, fires, observed, resets, refreshed, lpc>>
    /\ UNCHANGED schedVars

\* Line 300: updates = list(pending_emo_updates)
PollList(p) ==
    /\ ppc[p] = "list"
    /\ updates' = [updates EXCEPT ![p] = pending_emo_updates]
    /\ ppc' = [ppc EXCEPT ![p] = "clear"]
    /\ UNCHANGED <<response, delivered>>
    /\ UNCHANGED <<now, deadline, file, pending_emo_updates, nAppended, nIntake, fires, observed, resets, refreshed, lpc>>
    /\ UNCHANGED schedVars

\* A clear that empties the fired set along with the queue.
PollClearAll(p) ==
    /\ ppc[p] = "clear"
    /\ pending_emo_updates' = <<>>
    /\ triggered_events_this_minute' = {}
    /\ ppc' = [ppc EXCEPT ![p] = "return"]
    /\ UNCHANGED <<updates, response, delivered>>
    /\ UNCHANGED <<now, deadline, file, nAppended, nIntake, fires, observed, resets, refreshed, lpc>>
    /\ UNCHANGED <<pc, current_time, schedule, idx, error>>

\* A clear that waits until the scheduler thread is out of its for loop.
PollClearLocked(p) ==
    /\ pc # "for"
    /\ ppc[p] = "clear"
    /\ pending_emo_updates' = <<>>
    /\ ppc' = [ppc EXCEPT ![p] = "return"]
    /\ UNCHANGED <<updates, response, delivered>>
    /\ UNCHANGED <<now, deadline, file, nAppended, nIntake, fires, observed, resets, refreshed, lpc>>
    /\ UNCHANGED schedVars

\* Line 301: pending_emo_updates.clear()
PollClear(p) ==
    /\ ppc[p] = "clear"
    /\ pending_emo_updates' = <<>>
    /\ ppc' = [ppc EXCEPT ![p] = "return"]
    /\ UNCHANGED <<updates, response, delivered>>
    /\ UNCHANGED <<now, deadline, file, nAppended, nIntake, fires, observed, resets, refreshed, lpc>>
    /\ UNCHANGED schedVars

\* Lines 302-303: return jsonify(updates)
PollReturn(p) ==
    /\ ppc[p] = "return"
    /\ LET r == Jsonify(updates[p])
       IN /\ response' = [response EXCEPT ![p] = r]
          /\ delivered' = delivered \o Serials(r.body)
    /\ updates' = [updates EXCEPT ![p] = <<>>]
    /\ ppc' = [ppc EXCEPT ![p] = "idle"]
    /\ UNCHANGED <<now, deadline, file, pending_emo_updates, nAppended, nIntake, fires, observed, resets, refreshed, lpc>>
    /\ UNCHANGED schedVars

\* Line 306: return jsonify([])
PollReturnEmpty(p) ==
    /\ ppc[p] = "empty"
    /\ response' = [response EXCEPT ![p] = Jsonify(<<>>)]
    /\ ppc' = [ppc EXCEPT ![p] = "idle"]
    /\ UNCHANGED <<updates, delivered>>
    /\ UNCHANGED <<now, deadline, file, pending_emo_updates, nAppended, nIntake, fires, observed, resets, refreshed, lpc>>
    /\ UNCHANGED schedVars

\* ------------------------------------------------------------------ intake

\* An intake handler: pending_emo_updates.append({"type": "action", ...})
IntakeUpTo(limit, actions) ==
    /\ nIntake < limit
    /\ \E action \in actions :
          pending_emo_updates' =
              Enqueue(pending_emo_updates,
                      [type |-> "action", text |-> action, n |-> nAppended + 1])
    /\ nAppended' = nAppended + 1
    /\ nIntake' = nIntake + 1
    /\ UNCHANGED <<now, deadline, file, fires, observed, resets, refreshed, lpc>>
    /\ UNCHANGED schedVars
    /\ UNCHANGED pollVars

Intake == IntakeUpTo(MaxIntake, {"wave"})

\* ------------------------------------------------------ schedule resources

Row(mo, d, h, mi, sec, text) == <<TsCell(2025, mo, d, h, mi, sec), Cell(text)>>

\* Entries of minute 00:01 and of the minutes before and after it.
MinutesFile ==
    [exists |-> TRUE,
     rows |-> << Header,
                 Row(1, 1, 0, 1, 0, "one"),
                 Row(1, 1, 0, 0, 30, "zero"),
                 Row(1, 1, 0, 2, 10, "two") >>]

\* Entries of minute :01 of another hour, day, month and year.
FieldsFile ==
    [exists |-> TRUE,
     rows |-> << Header,
                 Row(1, 1, 0, 1, 59, "now"),
                 Row(1, 1, 1, 1, 0, "hour"),
                 Row(1, 2, 0, 1, 0, "day"),
                 Row(2, 1, 0, 1, 0, "month"),
                 <<TsCell(2026, 1, 1, 0, 1, 0), Cell("year")>> >>]

\* Rows the loader skips, around a valid one.
MalformedFile ==
    [exists |-> TRUE,
     rows |-> << Header,
                 <<Cell("bad"), Cell("x")>>,
                 <<TsCell(2025, 1, 1, 0, 1, 0)>>,
                 Row(1, 1, 0, 1, 0, "y"),
                 <<TsCell(2025, 2, 30, 0, 1, 0), Cell("feb30")>>,
                 <<TsCell(2025, 1, 1, 0, 1, 0), Cell("Good morning"), Cell(" EMO!")>> >>]

\* Two rows of one text in one minute at different seconds, and the first row
\* again.
SecondsFile ==
    [exists |-> TRUE,
     rows |-> << Header,
                 Row(1, 1, 0, 1, 0, "one"),
                 Row(1, 1, 0, 1, 30, "one"),
                 Row(1, 1, 0, 1, 0, "one") >>]

\* Three entries of minute 00:01 whose row order is not their time order.
OrderFile ==
    [exists |-> TRUE,
     rows |-> << Header,
                 Row(1, 1, 0, 1, 30, "b"),
                 Row(1, 1, 0, 1, 10, "a"),
                 Row(1, 1, 0, 1, 20, "c") >>]

\* The same text in two minutes that follow each other.
RepeatFile ==
    [exists |-> TRUE,
     rows |-> << Header,
                 Row(1, 1, 0, 0, 40, "chime"),
                 Row(1, 1, 0, 1, 40, "chime") >>]

\* One entry of minute 00:01.
OneEntryFile == [exists |-> TRUE, rows |-> <<Header, Row(1, 1, 0, 1, 0, "one")>>]

HeaderOnlyFile == [exists |-> TRUE, rows |-> <<Header>>]
\* An existing resource of zero bytes.
EmptyFile == [exists |-> TRUE, rows |-> <<>>]
AbsentFile == [exists |-> FALSE, rows |-> <<>>]

SchedFiles ==
    {MinutesFile, FieldsFile, SecondsFile, OrderFile, MalformedFile, HeaderOnlyFile,
     EmptyFile, AbsentFile}

\* The second the scheduler thread starts at: 00:00:50 (a reload second) and
\* 00:00:58 (not one).
StartTimes == {50, 58}

\* ---------------------------------------------------------- specifications

InitCommon ==
    /\ pending_emo_updates = <<>>
    /\ pc = "loop"
    /\ current_time = 0
    /\ schedule = [bound |-> FALSE, events |-> <<>>]
    /\ triggered_events_this_minute = {}
    /\ idx = 0
    /\ error = "none"
    /\ ppc = [p \in Pollers |-> "idle"]
    /\ updates = [p \in Pollers |-> <<>>]
    /\ response = [p \in Pollers |-> Jsonify(<<>>)]
    /\ nAppended = 0
    /\ nIntake = 0
    /\ delivered = <<>>
    /\ fires = {}
    /\ observed = {}
    /\ resets = {}
    /\ refreshed = -1
    /\ lpc = [th \in BootThreads |-> "start"]

\* The whole system, started at 00:01:00 on a schedule with an entry of that
\* minute.
Init ==
    /\ InitCommon
    /\ now = 60
    /\ deadline = 60 + MaxElapsed
    /\ file = OneEntryFile

Next ==
    \/ TickBegin
    \/ TickEvent
    \/ TickSleep
    \/ Intake
    \/ \E p \in Pollers : PollTest(p)
    \/ \E p \in Pollers : PollList(p)
    \/ \E p \in Pollers : PollClear(p)
    \/ \E p \in Pollers : PollReturn(p)
    \/ \E p \in Pollers : PollReturnEmpty(p)

Spec == Init /\ [][Next]_vars

\* The scheduler thread alone, over every schedule resource and start time.
SchedInit ==
    /\ InitCommon
    /\ now \in StartTimes
    /\ deadline = 50 + MaxSchedElapsed
    /\ file \in SchedFiles

SchedNext ==
    \/ TickBegin
    \/ TickEvent
    \/ TickSleep

SchedSpec == SchedInit /\ [][SchedNext]_vars

\* The schedule resource is edited from outside: rows are added to it or
\* removed from it.
Edits == {<<HeaderOnlyFile, MinutesFile>>, <<FieldsFile, OneEntryFile>>}

EditFile ==
    /\ \E e \in Edits : file = e[1] /\ file' = e[2]
    /\ UNCHANGED <<now, deadline, pending_emo_updates, nAppended, nIntake, fires, observed, resets, refreshed, lpc>>
    /\ UNCHANGED schedVars
    /\ UNCHANGED pollVars

\* The scheduler thread with its environment: the schedule resource is
\* edited while it runs and the process may be suspended.
EnvInit ==
    /\ InitCommon
    /\ now = 50
    /\ deadline = 50 + MaxSchedElapsed
    /\ file \in {MinutesFile, HeaderOnlyFile, FieldsFile, RepeatFile}

EnvNext ==
    \/ TickBegin
    \/ TickEvent
    \/ TickSleep
    \/ Suspend
    \/ EditFile

EnvSpec == EnvInit /\ [][EnvNext]_vars

\* The rows the schedule resources of LoadSpec are made of: two valid rows,
\* a timestamp that is no timestamp, a date that is no date, one column,
\* three columns.
RowKinds ==
    { Row(1, 2, 0, 1, 0, "a"),
      Row(1, 1, 0, 0, 55, "b"),
      <<Cell("bad"), Cell("x")>>,
      <<TsCell(2025, 2, 30, 0, 0, 55), Cell("feb30")>>,
      <<TsCell(2025, 1, 1, 0, 0, 55)>>,
      <<TsCell(2025, 1, 1, 0, 0, 55), Cell("Good morning"), Cell(" EMO!")>> }

SeqsUpTo(S, n) == UNION {[1..k -> S] : k \in 0..n}

LoadFiles ==
    {[exists |-> TRUE, rows |-> <<Header>> \o rs] : rs \in SeqsUpTo(RowKinds, MaxRows)}
        \cup {EmptyFile, AbsentFile}

\* The loader on every schedule resource of up to MaxRows data rows: the
\* scheduler thread starts at 00:00:50, a reload second.
LoadInit ==
    /\ InitCommon
    /\ now = 50
    /\ deadline = 50 + MaxLoadElapsed
    /\ file \in LoadFiles

LoadSpec == LoadInit /\ [][SchedNext]_vars

\* No concurrent activity: one handler at a time runs from its first step to
\* its return, and the scheduler thread is not started.
Quiet(p) == \A q \in Pollers \ {p} : ppc[q] = "idle"

SeqIntake ==
    /\ \A p \in Pollers : ppc[p] = "idle"
    /\ IntakeUpTo(MaxSeqIntake, {"wave", "nod"})

SeqPoll ==
    \E p \in Pollers :
        /\ Quiet(p)
        /\ \/ PollTest(p)
           \/ PollList(p)
           \/ PollClear(p)
           \/ PollReturn(p)
           \/ PollReturnEmpty(p)

SeqNext ==
    \/ SeqIntake
    \/ SeqPoll

SeqSpec == Init /\ [][SeqNext]_vars

\* One step of a call of get_updates by request thread p.
PollStep(p) ==
    \/ PollTest(p)
    \/ PollList(p)
    \/ PollClear(p)
    \/ PollReturn(p)
    \/ PollReturnEmpty(p)

\* The whole system with units that keep polling: a request thread that can
\* take a step of get_updates eventually takes it.
LiveSpec == Init /\ [][Next]_vars /\ \A p \in Pollers : WF_vars(PollStep(p))

\* The start of the server, with load_schedule_from_csv taken one file
\* operation at a time in the main thread and in the scheduler thread.

\* Line 426: if not os.path.exists(SCHEDULE_CSV_FILE), in the main thread.
BootMainCheck ==
    /\ lpc["main"] = "start"
    /\ lpc' = [lpc EXCEPT !["main"] = IF file.exists THEN "done" ELSE "exists"]
    /\ UNCHANGED <<now, deadline, file, pending_emo_updates, nAppended, nIntake, fires,
                   observed, resets, refreshed>>
    /\ UNCHANGED schedVars
    /\ UNCHANGED pollVars

\* Lines 385-389: the scheduler thread's first tick reads the clock at a
\* reload second and calls load_schedule_from_csv.
BootSchedTick ==
    /\ lpc["sched"] = "start"
    /\ pc = "loop"
    /\ ReloadDue(now)
    /\ current_time' = now
    /\ lpc' = [lpc EXCEPT !["sched"] = "exists"]
    /\ UNCHANGED <<now, deadline, file, pending_emo_updates, nAppended, nIntake, fires,
                   observed, resets, refreshed>>
    /\ UNCHANGED <<pc, schedule, triggered_events_this_minute, idx, error>>
    /\ UNCHANGED pollVars

\* Line 344: if not os.path.exists(file_path)
LoadExists(th) ==
    /\ lpc[th] = "exists"
    /\ lpc' = [lpc EXCEPT ![th] = IF file.exists THEN "read" ELSE "open"]
    /\ UNCHANGED <<now, deadline, file, pending_emo_updates, nAppended, nIntake, fires,
                   observed, resets, refreshed>>
    /\ UNCHANGED schedVars
    /\ UNCHANGED pollVars

\* Line 347: open(file_path, 'w') creates the file, or truncates it, to zero
\* bytes.
LoadOpenWrite(th) ==
    /\ lpc[th] = "open"
    /\ file' = EmptyFile
    /\ lpc' = [lpc EXCEPT ![th] = "write"]
    /\ UNCHANGED <<now, deadline, pending_emo_updates, nAppended, nIntake, fires,
                   observed, resets, refreshed>>
    /\ UNCHANGED schedVars
    /\ UNCHANGED pollVars

\* Lines 348-359: the three rows go to the writer's buffer and reach the file,
\* from its first byte on, when the with block closes it; then the function
\* calls itself.
LoadWriteClose(th) ==
    /\ lpc[th] = "write"
    /\ file' = DummyFile(now)
    /\ lpc' = [lpc EXCEPT ![th] = "exists"]
    /\ UNCHANGED <<now, deadline, pending_emo_updates, nAppended, nIntake, fires,
                   observed, resets, refreshed>>
    /\ UNCHANGED schedVars
    /\ UNCHANGED pollVars

\* Lines 361-373: open for reading, skip the header, read the rows; in the
\* scheduler thread the tick goes on to line 391, or the exception ends it.
LoadRead(th) ==
    /\ lpc[th] = "read"
    /\ LET r == ReadSchedule(file) IN
       /\ lpc' = [lpc EXCEPT ![th] = IF r.raised = "none" THEN "done" ELSE "raised"]
       /\ IF th = "sched"
          THEN IF r.raised = "none"
               THEN /\ schedule' = Reloaded(schedule, r.schedule)
                    /\ refreshed' = current_time
                    /\ triggered_events_this_minute' =
                           (IF ResetDue(current_time) THEN {} ELSE triggered_events_this_minute)
                    /\ pc' = "for"
                    /\ idx' = 1
                    /\ UNCHANGED error
               ELSE /\ pc' = "dead"
                    /\ error' = r.raised
                    /\ UNCHANGED <<schedule, refreshed, triggered_events_this_minute, idx>>
          ELSE UNCHANGED <<schedule, refreshed, triggered_events_this_minute, pc, idx, error>>
    /\ UNCHANGED <<now, deadline, file, pending_emo_updates, nAppended, nIntake, fires,
                   observed, resets, current_time>>
    /\ UNCHANGED pollVars

\* The wall clock moves on while the two threads start.
BootClock ==
    /\ now < deadline
    /\ now' = now + 1
    /\ UNCHANGED <<deadline, file, pending_emo_updates, nAppended, nIntake, fires,
                   observed, resets, refreshed, lpc>>
    /\ UNCHANGED schedVars
    /\ UNCHANGED pollVars

\* The server is started with no schedule resource, at a second that may be
\* a reload second by the time the scheduler thread reads the clock.
BootInit ==
    /\ InitCommon
    /\ now \in {49, 50}
    /\ deadline = 50 + MaxBootElapsed
    /\ file = AbsentFile

BootNext ==
    \/ BootMainCheck
    \/ BootSchedTick
    \/ \E th \in BootThreads : LoadExists(th)
    \/ \E th \in BootThreads : LoadOpenWrite(th)
    \/ \E th \in BootThreads : LoadWriteClose(th)
    \/ \E th \in BootThreads : LoadRead(th)
    \/ TickEvent
    \/ BootClock

BootSpec == BootInit /\ [][BootNext]_vars

\* -------------------------------------------------------------- properties

\* <<1, ..., n>>
Ident(n) == [i \in 1..n |-> i]

AllIdle == \A p \in Pollers : ppc[p] = "idle"

\* C1: no appended command is lost: once the polls have run until the queue
\* is empty and every handler has returned, every command appended so far has
\* been returned by some poll.
C1_NoItemLost ==
    (AllIdle /\ pending_emo_updates = <<>>)
        => \A n \in 1..nAppended : \E i \in 1..Len(delivered) : delivered[i] = n

\* C2: no command is returned by two different polls (the body of one poll
\* holds a command once, so a command returned twice was returned by two).
C2_NoDuplicateAcrossPolls ==
    \A i, j \in 1..Len(delivered) : i # j => delivered[i] # delivered[j]

\* C3: over the ticks of one minute, an entry due in that minute is enqueued
\* exactly once.
C3_ExactlyOncePerMinute ==
    \A f \in fires :
        Cardinality({g \in fires : /\ g.datetime = f.datetime
                                   /\ g.text = f.text
                                   /\ g.at \div 60 = f.at \div 60}) = 1

\* C4: a tick that raised is followed by the next tick: an exception never
\* ends the scheduler loop.
C4_ExceptionDoesNotEndLoop == ~(error # "none" /\ pc = "dead")

\* C5: no load of the schedule resource raises into scheduler_task.
C5_LoadNeverRaises == error # "StopIteration"

\* C6: with one handler running at a time, a drain returns every queued
\* command in enqueue order and leaves the queue empty, and a poll that
\* follows it returns the empty list.
C6_SequentialDrain ==
    \A p \in Pollers :
        /\ ppc[p] = "return" =>
              /\ pending_emo_updates = <<>>
              /\ delivered \o Serials(updates[p]) = Ident(nAppended)
        /\ ppc[p] = "empty" =>
              /\ pending_emo_updates = <<>>
              /\ delivered = Ident(nAppended)
        /\ AllIdle => delivered \o Serials(pending_emo_updates) = Ident(nAppended)

\* A poll returned [a, b] in one response and the poll after it found nothing.
C6_Witness ==
    /\ delivered = <<1, 2>>
    /\ \E p, q \in Pollers :
          /\ ppc[p] = "empty"
          /\ Len(response[q].body) = 2
          /\ response[q].body[1].n = 1

\* C7: the results of successive polls, concatenated in the order the polls
\* return, list the commands in the order they were appended.
C7_OrderPreserved ==
    \A i, j \in 1..Len(delivered) : i < j => delivered[i] <= delivered[j]

\* C8: a poll never errors: every response is a success carrying a sequence,
\* and a poll that finds the queue empty answers the empty list and leaves
\* the queue as it is.
C8_PollNeverErrors ==
    [][\A p \in Pollers :
          /\ response'[p].status = 200
          /\ (ppc[p] = "idle" /\ ppc'[p] # "idle" /\ pending_emo_updates = <<>>)
                => (ppc'[p] = "empty" /\ pending_emo_updates' = <<>>)
          /\ (ppc[p] = "empty" /\ ppc'[p] = "idle")
                => (response'[p].body = <<>> /\ pending_emo_updates' = pending_emo_updates)
          /\ (ppc[p] = "return" /\ ppc'[p] = "idle")
                => response'[p].body = updates[p]]_vars

\* A poll answered the empty list while another thread had appended since
\* its test.
C8_Witness ==
    \E p \in Pollers :
        /\ ppc[p] = "idle"
        /\ response[p].body = <<>>
        /\ pending_emo_updates # <<>>
        /\ delivered # <<>>

\* C9: a tick enqueues an entry only when the entry's year, month, day, hour
\* and minute equal those of the tick's current time, whatever the seconds.
C9_MinuteGranularity ==
    \A f \in fires :
        LET ct == DateTimeNow(f.at) IN
        /\ f.datetime.year = ct.year
        /\ f.datetime.month = ct.month
        /\ f.datetime.day = ct.day
        /\ f.datetime.hour = ct.hour
        /\ f.datetime.minute = ct.minute

\* A tick of minute 00:01 has gone through a snapshot holding entries of
\* 00:00, 00:01 and 00:02, or of 00:01 at another hour, day, month and year,
\* and enqueued an entry whose seconds differ from its own.
C9_Witness ==
    /\ pc = "for"
    /\ idx > Len(schedule.events)
    /\ Len(schedule.events) >= 3
    /\ current_time \in 60..119
    /\ \E f \in fires : f.at = current_time /\ f.datetime.second # f.at % 60

\* C10: no tick whose current time is past an entry's trigger minute
\* enqueues that entry.
C10_PastEntryNeverFires ==
    \A f \in fires : MinuteStamp(DateTimeNow(f.at)) <= MinuteStamp(f.datetime)

\* After an entry fired, the clock passed its minute and a tick that reloaded
\* the schedule and reset the fired set went through the entry again.
C10_Witness ==
    /\ pc = "for"
    /\ idx > Len(schedule.events)
    /\ ReloadDue(current_time)
    /\ ResetDue(current_time)
    /\ \E f \in fires :
          /\ MinuteStamp(f.datetime) < MinuteStamp(DateTimeNow(current_time))
          /\ \E i \in 1..Len(schedule.events) :
                /\ schedule.events[i].datetime = f.datetime
                /\ schedule.events[i].text = f.text

\* C11: no catch-up: an entry is enqueued only if some tick went through it
\* while the clock was inside its trigger minute; an entry whose minute was
\* skipped, or that was not in the snapshot during it, is never enqueued.
C11_NoBackfill ==
    \A f \in fires : <<f.datetime, f.text>> \in observed

\* A tick that reset the fired set has gone through a snapshot holding an
\* entry whose minute is past and that no tick saw inside its minute.
C11_Witness ==
    /\ pc = "for"
    /\ idx > Len(schedule.events)
    /\ ResetDue(current_time)
    /\ \E i \in 1..Len(schedule.events) :
          LET e == schedule.events[i] IN
          /\ MinuteStamp(e.datetime) < MinuteStamp(DateTimeNow(current_time))
          /\ <<e.datetime, e.text>> \notin observed
          /\ \A f \in fires : f.text # e.text

\* C12: once a tick has evaluated an entry of the snapshot while its
\* current time is inside the entry's trigger minute, a speak command for
\* that entry has been appended by a tick of that minute.
C12_DueEntryPromoted ==
    pc \in {"for", "loop"} =>
        \A i \in 1..Len(schedule.events) :
            (i < idx /\ InMinuteOf(schedule.events[i].datetime, current_time)) =>
                \E f \in fires :
                    /\ f.datetime = schedule.events[i].datetime
                    /\ f.text = schedule.events[i].text
                    /\ f.at \div 60 = current_time \div 60

\* A tick outside the reset window has gone through an entry of the current
\* minute that a tick earlier in the minute enqueued.
C12_Witness ==
    /\ pc = "for"
    /\ idx > Len(schedule.events)
    /\ ~ResetDue(current_time)
    /\ \E i \in 1..Len(schedule.events) :
          /\ InMinuteOf(schedule.events[i].datetime, current_time)
          /\ \E f \in fires : /\ f.datetime = schedule.events[i].datetime
                              /\ f.text = schedule.events[i].text
                              /\ f.at < current_time
                              /\ f.at \div 60 = current_time \div 60

\* A data row the loader keeps: two columns, the first a timestamp.
WellFormed(row) == Len(row) = 2 /\ ~StrptimeFails(row[1])

\* The data rows of the resource, without its first row.
DataRows == IF Len(file.rows) = 0 THEN <<>> ELSE Tail(file.rows)

ExampleEntries ==
    << [datetime |-> [year |-> 2025, month |-> 1, day |-> 1, hour |-> 0, minute |-> 1, second |-> 20],
        text |-> "Hello from the future, EMO!"],
       [datetime |-> [year |-> 2025, month |-> 1, day |-> 1, hour |-> 0, minute |-> 1, second |-> 50],
        text |-> "This is your one minute warning!"] >>

\* C15: a load that finds no resource creates one of a header and two
\* example rows dated 30 and 60 seconds after the load, and returns those
\* two entries; the loads that follow return the same two entries from the
\* resource as it was created.
C15_Bootstrap ==
    /\ schedule.bound => file.exists
    /\ (file.exists /\ file \notin SchedFiles) =>
          /\ Len(file.rows) = 3
          /\ file.rows[1] = <<Cell("datetime_str"), Cell("text_to_speak")>>
          /\ \A k \in 2..3 : Len(file.rows[k]) = 2
          /\ file.rows[2][1].ts = <<2025, 1, 1, 0, 1, 20>>
          /\ file.rows[3][1].ts = <<2025, 1, 1, 0, 1, 50>>
          /\ schedule.bound
          /\ schedule.events = ExampleEntries

\* The resource was created by the first load and a later tick has loaded it
\* again.
C15_Witness ==
    /\ file.exists
    /\ file \notin SchedFiles
    /\ pc = "for"
    /\ current_time >= 60
    /\ ReloadDue(current_time)
    /\ schedule.events = ExampleEntries

\* C16: a load never changes a resource that exists: the only write is the
\* creation of a missing resource.
C16_LoadKeepsRows ==
    [][/\ file.exists => file' = file
       /\ file' # file => (~file.exists /\ file'.exists)]_vars

\* A load has read a resource holding a malformed row and left it there.
C16_Witness ==
    /\ schedule.bound
    /\ file.exists
    /\ \E k \in 1..Len(DataRows) : ~WellFormed(DataRows[k])

\* C17: the fired set and the snapshot change only in steps of the scheduler
\* loop; no step of a poll or of an intake handler changes them.
C17_SchedulerOwnsItsState ==
    [][/\ (ppc' # ppc \/ nIntake' # nIntake) =>
             /\ schedule' = schedule
             /\ triggered_events_this_minute' = triggered_events_this_minute
       /\ (schedule' # schedule \/ triggered_events_this_minute' # triggered_events_this_minute) =>
             /\ pc \in {"loop", "for"}
             /\ (pc' # pc \/ idx' # idx)]_vars

\* A poll has returned commands and an intake handler has appended one while
\* the scheduler held a snapshot and a non-empty fired set.
C17_Witness ==
    /\ schedule.bound
    /\ triggered_events_this_minute # {}
    /\ nIntake > 0
    /\ \E p \in Pollers : ppc[p] = "idle" /\ response[p].body # <<>>

\* C18: every command the scheduler appends is a speak command carrying the
\* text of the snapshot entry the loop is at, that entry's minute is the
\* tick's current minute, its identifier was not in the fired set and is
\* added to it in the same step; the scheduler changes the queue in no other
\* way.
C18_SchedulerAppendsDueSpeak ==
    [][/\ nAppended' > nAppended =>
             /\ pc = "for"
             /\ idx <= Len(schedule.events)
             /\ LET e == schedule.events[idx]
                    c == pending_emo_updates'[Len(pending_emo_updates')]
                IN /\ pending_emo_updates' = pending_emo_updates \o <<c>>
                   /\ c.type = "speak"
                   /\ c.text = e.text
                   /\ MinuteStamp(e.datetime) = MinuteStamp(DateTimeNow(current_time))
                   /\ EventId(e) \notin triggered_events_this_minute
                   /\ triggered_events_this_minute' =
                          triggered_events_this_minute \cup {EventId(e)}
       /\ nAppended' = nAppended => pending_emo_updates' = pending_emo_updates]_vars

\* The scheduler has appended the commands of two entries.
C18_Witness ==
    /\ Len(pending_emo_updates) >= 2
    /\ pending_emo_updates[1].text # pending_emo_updates[2].text
    /\ Cardinality(triggered_events_this_minute) >= 1

\* C19: within one minute the reset empties a non-empty fired set at most
\* once.
C19_ResetOncePerMinute ==
    \A a, b \in resets : a \div 60 = b \div 60 => a = b

ValidEntries(f) ==
    LET kept == SelectSeq(IF Len(f.rows) = 0 THEN <<>> ELSE Tail(f.rows), WellFormed)
    IN [i \in 1..Len(kept) |-> [datetime |-> Strptime(kept[i][1]), text |-> kept[i][2].s]]

\* C21: a refresh replaces the snapshot wholesale: after every refresh the
\* snapshot is exactly the valid rows of the resource that load read, the
\* snapshot changes in no other step, and every entry a tick enqueues is an
\* entry of the snapshot of the last refresh, so an entry removed from the
\* resource before a refresh is not enqueued after it.
C21_ReloadSupersedes ==
    [][/\ (pc = "loop" /\ pc' = "for" /\ ReloadDue(now)) =>
             /\ schedule'.bound
             /\ schedule'.events = ValidEntries(file')
       /\ schedule' # schedule => (pc = "loop" /\ pc' = "for" /\ ReloadDue(now))
       /\ nAppended' > nAppended =>
             /\ pc = "for" /\ idx <= Len(schedule.events)
             /\ pending_emo_updates'[Len(pending_emo_updates')].text = schedule.events[idx].text
             /\ schedule' = schedule]_vars

\* The entry "now" was enqueued from a snapshot of five entries, its row was
\* removed from the resource, and a tick of the same minute has refreshed the
\* snapshot to the one remaining row and gone through it.
C21_Witness ==
    /\ file = OneEntryFile
    /\ schedule.events = ValidEntries(OneEntryFile)
    /\ pc = "for"
    /\ idx > Len(schedule.events)
    /\ current_time \div 60 = 1
    /\ \E f \in fires : f.text = "now" /\ f.at < current_time
    /\ \E f \in fires : f.text = "one" /\ f.at = current_time

\* C22: in every run of the loop a refresh happens within any window of 10
\* seconds: at no tick is the last refresh more than 10 seconds back.
C22_RefreshWithinTenSeconds ==
    (pc = "for" /\ refreshed >= 0) => current_time - refreshed <= ReloadPeriod

\* The number of steps a request thread at this position has taken in its
\* call of get_updates.
StepsTaken(position) ==
    CASE position = "idle" -> 0
      [] position = "list" -> 1
      [] position = "empty" -> 1
      [] position = "clear" -> 2
      [] position = "return" -> 3

\* C23: no operation waits on another component.  In every reachable state
\* each request thread can take its next step of get_updates, whatever the
\* positions of the other threads, an append is a single step that is
\* possible in every state, and the scheduler thread can take its next step
\* everywhere but in its sleep, so no state is a deadlock; a call of
\* get_updates returns after at most four of its own steps.
C23_NoWaiting ==
    /\ [](/\ \A p \in Pollers :
                /\ ppc[p] = "idle" => ENABLED PollTest(p)
                /\ ppc[p] = "list" => ENABLED PollList(p)
                /\ ppc[p] = "clear" => ENABLED PollClear(p)
                /\ ppc[p] = "return" => ENABLED PollReturn(p)
                /\ ppc[p] = "empty" => ENABLED PollReturnEmpty(p)
          /\ nIntake < MaxIntake => ENABLED Intake
          /\ pc = "loop" => ENABLED TickBegin
          /\ (pc = "for" /\ idx <= Len(schedule.events)) => ENABLED TickEvent
          /\ (pc = "for" /\ idx > Len(schedule.events) /\ now + SleepSeconds <= deadline)
                => ENABLED TickSleep)
    /\ [][\A p \in Pollers :
             ppc'[p] # ppc[p] =>
                 \/ StepsTaken(ppc'[p]) = StepsTaken(ppc[p]) + 1
                 \/ ppc'[p] = "idle" /\ StepsTaken(ppc[p]) \in {1, 3}]_vars

\* Two request threads are between the steps of get_updates, one about to
\* clear the queue, while the scheduler thread is inside its for loop with a
\* command already appended.
C23_Witness ==
    /\ pc = "for"
    /\ idx <= Len(schedule.events)
    /\ \E p, q \in Pollers :
          /\ p # q
          /\ ppc[p] = "clear"
          /\ ppc[q] \in {"list", "return"}
    /\ nAppended > 0

\* C24: the for loop never reads the snapshot before a refresh has assigned
\* it: whatever the second of the first tick, the first tick goes through a
\* loaded snapshot and the thread is alive after it.
C24_SnapshotAssignedBeforeRead ==
    /\ pc = "for" => schedule.bound
    /\ error # "UnboundLocalError"

\* C25: start-up with no schedule resource is free of races: under every
\* interleaving of the main thread's load with the scheduler thread's first
\* refresh neither call raises, and once both have returned the resource is
\* one header and two example rows.
C25_BootstrapRaceFree ==
    /\ \A th \in BootThreads : lpc[th] # "raised"
    /\ (\A th \in BootThreads : lpc[th] = "done") =>
           /\ Len(file.rows) = 3
           /\ file.rows[1] = Header
           /\ \A k \in 2..3 : WellFormed(file.rows[k])

\* C26: a refresh inside an entry's trigger minute does not make it fire
\* again: no tick that refreshes the snapshot at a second outside the reset
\* window enqueues an entry that an earlier tick of the same minute enqueued.
C26_RefreshDoesNotRefire ==
    \A f \in fires :
        ((f.at % 60) % ReloadPeriod = 0 /\ f.at % 60 >= ResetWindow) =>
            ~\E g \in fires : /\ g.datetime = f.datetime
                              /\ g.text = f.text
                              /\ g.at < f.at
                              /\ g.at \div 60 = f.at \div 60

\* A tick that refreshed the snapshot outside the reset window has gone
\* through an entry of the current minute that an earlier tick of the minute
\* enqueued.
C26_Witness ==
    /\ pc = "for"
    /\ idx > Len(schedule.events)
    /\ refreshed = current_time
    /\ ~ResetDue(current_time)
    /\ \E i \in 1..Len(schedule.events) :
          /\ InMinuteOf(schedule.events[i].datetime, current_time)
          /\ EventId(schedule.events[i]) \in triggered_events_this_minute
          /\ \E g \in fires : /\ g.datetime = schedule.events[i].datetime
                              /\ g.text = schedule.events[i].text
                              /\ g.at < current_time
                              /\ g.at \div 60 = current_time \div 60

\* C27: a stale fired set never suppresses a due entry: a tick that goes
\* through an entry of the current minute that no tick of this minute has
\* enqueued yet enqueues it, whatever identifiers of earlier minutes are left
\* in the fired set.
C27_StaleSetDoesNotSuppress ==
    [][(/\ pc = "for"
        /\ idx <= Len(schedule.events)
        /\ idx' = idx + 1
        /\ InMinuteOf(schedule.events[idx].datetime, current_time)
        /\ ~\E f \in fires : /\ f.datetime = schedule.events[idx].datetime
                             /\ f.text = schedule.events[idx].text
                             /\ f.at \div 60 = current_time \div 60)
          => /\ nAppended' = nAppended + 1
             /\ pending_emo_updates'[Len(pending_emo_updates')].text = schedule.events[idx].text]_vars

\* No tick fell into the reset window of the current minute: the fired set
\* still holds the identifier of an entry of the minute before, next to that
\* of an entry of the same text which the tick has just enqueued.
C27_Witness ==
    /\ pc = "for"
    /\ ~ResetDue(current_time)
    /\ \E f, g \in fires :
          /\ f.text = g.text
          /\ f.at \div 60 < current_time \div 60
          /\ g.at = current_time
          /\ <<f.datetime, f.text>> \in triggered_events_this_minute
          /\ <<g.datetime, g.text>> \in triggered_events_this_minute

\* The positions of the snapshot, among those the for loop has passed, whose
\* entry the current tick enqueued (the first position of an entry that
\* stands in the snapshot more than once).
EnqueuedThisTick ==
    SelectSeq([i \in 1..(idx - 1) |-> i],
              LAMBDA i : /\ [at |-> current_time, datetime |-> schedule.events[i].datetime,
                             text |-> schedule.events[i].text] \in fires
                         /\ \A j \in 1..(i - 1) : schedule.events[j] # schedule.events[i])

\* C28: within one tick the commands of the due entries are appended in
\* snapshot order: the commands the current tick has appended stand at the
\* tail of the queue in the order of their rows.
C28_TickAppendsInRowOrder ==
    pc = "for" =>
        LET k == EnqueuedThisTick
            q == pending_emo_updates
        IN /\ Len(k) <= Len(q)
           /\ \A m \in 1..Len(k) :
                 /\ q[Len(q) - Len(k) + m].type = "speak"
                 /\ q[Len(q) - Len(k) + m].text = schedule.events[k[m]].text

\* One tick has enqueued three entries of its minute whose rows are not in
\* the order of their times.
C28_Witness ==
    /\ pc = "for"
    /\ idx > Len(schedule.events)
    /\ Len(EnqueuedThisTick) = 3
    /\ schedule.events[1].datetime.second > schedule.events[2].datetime.second
    /\ schedule.events[1].text # schedule.events[2].text
    /\ pending_emo_updates[Len(pending_emo_updates) - 2].text = schedule.events[1].text

\* C29: producers only append and the consumer only drains: a step of the
\* scheduler thread leaves the queue as it is or makes it one command longer
\* at the tail, with the commands that were in it unchanged and in place; a
\* step of a poll changes neither the fired set nor the snapshot nor the
\* schedule resource.
C29_AppendOnlyAndDrainOnly ==
    [][/\ (pc' # pc \/ idx' # idx \/ current_time' # current_time) =>
             \/ pending_emo_updates' = pending_emo_updates
             \/ /\ Len(pending_emo_updates') = Len(pending_emo_updates) + 1
                /\ SubSeq(pending_emo_updates', 1, Len(pending_emo_updates)) = pending_emo_updates
       /\ ppc' # ppc =>
             /\ triggered_events_this_minute' = triggered_events_this_minute
             /\ schedule' = schedule
             /\ file' = file]_vars

\* The scheduler has appended a command behind one an intake handler had
\* appended, and a poll is about to clear the queue while the fired set is
\* not empty.
C29_Witness ==
    /\ Len(pending_emo_updates) = 2
    /\ pending_emo_updates[1].type = "action"
    /\ pending_emo_updates[2].type = "speak"
    /\ triggered_events_this_minute # {}
    /\ \E p \in Pollers : ppc[p] = "clear"

\* C30: with units that keep polling, every command appended to the queue is
\* eventually in the result of some poll.
C30_EventuallyDelivered ==
    \A n \in 1..(MaxIntake + MaxElapsed + 1) :
        (nAppended >= n) ~> (\E i \in 1..Len(delivered) : delivered[i] = n)

=============================================================================
